---- MODULE Spec2Model ----
(***************************************************************************)
(* A model of bonsai_cli/api.py: the HTTP mediation layer of BonsaiAPI     *)
(* (_http_request, _try_http_request, _raise_on_redirect), the module      *)
(* functions _dict and _handle_and_raise, and the resource methods that    *)
(* build a request and hand it to the dispatcher.                          *)
(*                                                                         *)
(* Conventions.  A Python str is a sequence of text atoms (a Text); the    *)
(* substring test `s in text` is membership of the atom s in the           *)
(* sequence.  A Python value is a record tagged by its field k.  A Python  *)
(* dict is a function from key strings to Python values.  uuid4() is a     *)
(* counter: every call yields an identifier never produced before.         *)
(***************************************************************************)
EXTENDS Integers, Sequences, FiniteSets, TLC

VARIABLES
    access_key,     \* self._access_key, the current credential
    workspace_id,   \* self._workspace_id
    tenant_id,      \* self.tenant_id
    api_url,        \* self._api_url
    gateway_url,    \* self._gateway_url
    session,        \* self._session, PyNone until it is created
    init_outcome,   \* how __init__ ended: not run, returned, or raised
    key_writes,     \* assignments to self._access_key made after __init__
    calls,          \* per caller: the call in progress and what it did
    next_uuid,      \* number of uuid4() values drawn so far
    started         \* number of calls started on this client

vars == <<access_key, workspace_id, tenant_id, api_url, gateway_url, session,
          init_outcome, key_writes, calls, next_uuid, started>>

-----------------------------------------------------------------------------
(* Bounds of the model *)

\* Calls made one after another on the client (Spec)
MaxCalls == 1

\* Calls made by the two callers that share the client (SpecConc)
MaxConcCalls == 2

\* Calls made one after another on a client whose credential is replaced
\* along the way (SpecSeq)
MaxSeqCalls == 3

-----------------------------------------------------------------------------
(* Python values *)

PyStr(s) == [k |-> "str", v |-> s]
PyInt(n) == [k |-> "int", v |-> n]
PyBool(b) == [k |-> "bool", v |-> b]
PyNone == [k |-> "none"]
PyList(s) == [k |-> "list", v |-> s]
PyDict(f) == [k |-> "dict", v |-> f]
PyTimedelta(s) == [k |-> "timedelta", v |-> s]
PyExc(type, text) == [k |-> "exc", type |-> type, v |-> text]

EmptyDict == [key \in {} |-> PyNone]

\* d[key] = val
Put(d, key, val) ==
    [x \in DOMAIN d \cup {key} |-> IF x = key THEN val ELSE d[x]]

\* d.update(e)
Update(d, e) ==
    [x \in DOMAIN d \cup DOMAIN e |-> IF x \in DOMAIN e THEN e[x] ELSE d[x]]

\* bool(v) for the values tested with `if v` / `v if v else ...`
Truthy(v) ==
    CASE v.k = "none" -> FALSE
      [] v.k = "str" -> v.v # <<>>
      [] v.k = "dict" -> DOMAIN v.v # {}
      [] v.k = "list" -> v.v # <<>>
      [] v.k = "bool" -> v.v
      [] v.k = "int" -> v.v # 0
      [] OTHER -> TRUE

\* s in text
Contains(text, s) == \E i \in DOMAIN text : text[i] = s

\* text.strip(): leading and trailing whitespace atoms removed
IsSpace(a) == a \in {" ", "\n", "\t"}

RECURSIVE LStrip(_)
LStrip(text) ==
    IF text # <<>> /\ IsSpace(Head(text)) THEN LStrip(Tail(text)) ELSE text

RECURSIVE RStrip(_)
RStrip(text) ==
    IF text # <<>> /\ IsSpace(text[Len(text)])
    THEN RStrip(SubSeq(text, 1, Len(text) - 1))
    ELSE text

Strip(text) == RStrip(LStrip(text))

\* str(v) of a Python value, as the text atoms it is made of, in order.
\* Quotes and punctuation are left out; a dict contributes its keys and the
\* text of its values.
RECURSIVE Repr(_), ReprItems(_, _), ReprSeq(_)
Repr(v) ==
    CASE v.k = "str" -> v.v
      [] v.k = "int" -> <<ToString(v.v)>>
      [] v.k = "bool" -> <<IF v.v THEN "True" ELSE "False">>
      [] v.k = "none" -> <<"None">>
      [] v.k = "timedelta" -> v.v
      [] v.k = "exc" -> <<v.type>> \o v.v
      [] v.k = "list" -> ReprSeq(v.v)
      [] v.k = "dict" -> ReprItems(v.v, DOMAIN v.v)

ReprSeq(s) == IF s = <<>> THEN <<>> ELSE Repr(Head(s)) \o ReprSeq(Tail(s))

ReprItems(f, keys) ==
    IF keys = {} THEN <<>>
    ELSE LET key == CHOOSE x \in keys : TRUE
         IN  <<key>> \o Repr(f[key]) \o ReprItems(f, keys \ {key})

\* '{}'.format(v)
Format(v) == Repr(v)

\* str(uuid4()) for the n-th uuid drawn
Uuid(n) == "uuid-" \o ToString(n)

-----------------------------------------------------------------------------
(* HTTP responses, as the transport (requests) hands them over *)

NoJson == [k |-> "nojson"]

\* A body is its text and what response.json() makes of it (NoJson: it raises
\* ValueError).
Body(text, json) == [text |-> text, json |-> json]

BodyEmpty == Body(<<>>, NoJson)
BodyBlank == Body(<<" ", "\n">>, NoJson)
BodyHtml == Body(<<"<html>", "oops", "</html>">>, NoJson)
BodyZero == Body(<<"0">>, PyInt(0))
BodyFalse == Body(<<"false">>, PyBool(FALSE))
BodyEmptyStr == Body(<<"\"\"">>, PyStr(<<>>))
BodyEmptyArr == Body(<<"[]">>, PyList(<<>>))
BodyNull == Body(<<"null">>, PyNone)
BodyArr == Body(<<"[", "b1", "]">>, PyList(<<PyDict([name |-> PyStr(<<"b1">>)])>>))
BodyEmptyObj == Body(<<"{}">>, PyDict(EmptyDict))
BodyObj == Body(<<"{", "a", "1", "}">>, PyDict([a |-> PyInt(1)]))
BodyValueObj ==
    Body(<<"{", "value", "b1", "}">>,
         PyDict([value |-> PyList(<<PyDict([name |-> PyStr(<<"b1">>)])>>)]))
BodyCollide ==
    Body(<<"{", "a", "status", "statusCode", "statusMessage", "elapsed",
           "timeTaken", "}">>,
         PyDict([a |-> PyInt(1),
                 status |-> PyStr(<<"bodyStatus">>),
                 statusCode |-> PyStr(<<"bodyStatusCode">>),
                 statusMessage |-> PyStr(<<"bodyStatusMessage">>),
                 elapsed |-> PyStr(<<"bodyElapsed">>),
                 timeTaken |-> PyStr(<<"bodyTimeTaken">>)]))
BodyConflict ==
    Body(<<"{", "error", "Conflict", "exists", "}">>,
         PyDict([error |-> PyDict([code |-> PyStr(<<"Conflict">>),
                                   message |-> PyStr(<<"exists">>)])]))
BodyDeprecated ==
    Body(<<"{", "error", "BonsaiAuthDeprecated", "}">>,
         PyDict([error |-> PyDict([code |-> PyStr(<<"BonsaiAuthDeprecated">>),
                                   message |-> PyStr(<<"use AAD">>)])]))
BodyInvalidUse ==
    Body(<<"{", "error", "InvalidUseOfAccessKey", "}">>,
         PyDict([error |-> PyDict([code |-> PyStr(<<"Unauthorized">>),
                                   message |-> PyStr(<<"rejected: ", "InvalidUseOfAccessKey">>)])]))

\* Error bodies that are not the whole envelope {error: {code, message}}
BodyErrorString ==
    Body(<<"{", "error", "boom", "}">>, PyDict([error |-> PyStr(<<"boom">>)]))
BodyCodeOnly ==
    Body(<<"{", "error", "code", "Conflict", "}">>,
         PyDict([error |-> PyDict([code |-> PyStr(<<"Conflict">>)])]))
BodyMessageOnly ==
    Body(<<"{", "error", "message", "exists", "}">>,
         PyDict([error |-> PyDict([message |-> PyStr(<<"exists">>)])]))

NonJsonBodies == {BodyEmpty, BodyBlank, BodyHtml}
ScalarBodies ==
    {BodyZero, BodyFalse, BodyEmptyStr, BodyEmptyArr, BodyNull, BodyArr}
ObjectBodies ==
    {BodyEmptyObj, BodyObj, BodyValueObj, BodyCollide, BodyConflict,
     BodyDeprecated, BodyInvalidUse, BodyErrorString, BodyCodeOnly,
     BodyMessageOnly}
Bodies == NonJsonBodies \cup ScalarBodies \cup ObjectBodies

\* Response headers (a case-insensitive dict in requests; the names are used
\* here as the code spells them).
SpanHeader == [h \in {"SpanID"} |-> <<"span-7">>]
TimingHeader == [h \in {"x-ms-response-time"} |-> <<"42ms">>]
HeaderSets ==
    {EmptyDict, SpanHeader, TimingHeader, Update(SpanHeader, TimingHeader)}

StatusCodes == {100, 200, 204, 301, 302, 401, 409, 500}

Reason(status_code) ==
    CASE status_code = 100 -> "Continue"
      [] status_code = 200 -> "OK"
      [] status_code = 204 -> "No Content"
      [] status_code = 301 -> "Moved Permanently"
      [] status_code = 302 -> "Found"
      [] status_code = 401 -> "Unauthorized"
      [] status_code = 409 -> "Conflict"
      [] status_code = 500 -> "Internal Server Error"
      [] OTHER -> "Unknown"

Elapsed == PyTimedelta(<<"0:00:01">>)

\* The response the transport returns to a request sent to url.
Response(status_code, body, headers, url) ==
    [status_code |-> status_code, reason |-> Reason(status_code),
     url |-> url, body |-> body, headers |-> headers, elapsed |-> Elapsed]

\* What the server can answer, before the request's url is known.
Answer(status_code, body, headers) ==
    [kind |-> "response", status_code |-> status_code, body |-> body,
     headers |-> headers]

NoExc == [k |-> "noexc"]

\* response.raise_for_status(): the HTTPError it raises, or NoExc
raise_for_status(response) ==
    IF 400 <= response.status_code /\ response.status_code < 500
    THEN PyExc("HTTPError",
               <<ToString(response.status_code), " Client Error: ",
                 response.reason, " for url: ">> \o response.url)
    ELSE IF 500 <= response.status_code /\ response.status_code < 600
    THEN PyExc("HTTPError",
               <<ToString(response.status_code), " Server Error: ",
                 response.reason, " for url: ">> \o response.url)
    ELSE NoExc

\* response.ok, which is also bool(response)
Ok(response) == raise_for_status(response) = NoExc

-----------------------------------------------------------------------------
(* Module functions: _handle_and_raise, _dict *)

\* The two fields are read together: one that is missing loses the other.
HasErrorEnvelope(response, field) ==
    /\ response.body.json # NoJson
    /\ response.body.json.k = "dict"
    /\ "error" \in DOMAIN response.body.json.v
    /\ response.body.json.v["error"].k = "dict"
    /\ {"code", "message"} \subseteq DOMAIN response.body.json.v["error"].v

\* response.json()["error"][field] evaluates without raising
HasErrorField(response, field) ==
    /\ response.body.json # NoJson
    /\ response.body.json.k = "dict"
    /\ "error" \in DOMAIN response.body.json.v
    /\ response.body.json.v["error"].k = "dict"
    /\ field \in DOMAIN response.body.json.v["error"].v

ErrorField(response, field) == response.body.json.v["error"].v[field]

\* error_dump
ErrorDump(response) ==
    IF response.body.json # NoJson THEN response.body.json
    ELSE PyStr(<<"Unknown server error occurred">>)

\* error_code
ErrorCode(response) ==
    IF HasErrorField(response, "code")
    THEN <<"Request failed with error code \"">>
            \o Format(ErrorField(response, "code")) \o <<"\"">>
    ELSE <<>>

\* The span id is read before the request id is appended, inside the same
\* try block.
ErrorMessageSpanFirst(response, request_id) ==
    LET base == IF HasErrorField(response, "message")
                THEN <<"Error message: ">>
                        \o Format(ErrorField(response, "message"))
                ELSE <<"Request failed.">>
    IN  IF "SpanID" \in DOMAIN response.headers
        THEN base \o <<" Request ID: ", request_id>>
                  \o <<" Span ID: ">> \o response.headers["SpanID"]
        ELSE base

\* error_message, with the request id and the span id appended
ErrorMessage(response, request_id) ==
    LET base == IF HasErrorField(response, "message")
                THEN <<"Error message: ">>
                        \o Format(ErrorField(response, "message"))
                ELSE <<"Request failed.">>
        with_id == base \o <<" Request ID: ", request_id>>
    IN  IF "SpanID" \in DOMAIN response.headers
        THEN with_id \o <<" Span ID: ">> \o response.headers["SpanID"]
        ELSE with_id

BrainServerError(arg) == [type |-> "BrainServerError", arg |-> arg]

\* The BrainServerError _handle_and_raise raises.
_handle_and_raise(response, e, request_id) ==
    LET r1 == Put(EmptyDict, "errorDump", ErrorDump(response))
        r2 == Put(r1, "status", PyStr(<<"Failed">>))
        r3 == Put(r2, "statusCode", PyInt(response.status_code))
        r4 == Put(r3, "elapsed", response.elapsed)
        r5 == Put(r4, "exception", e)
        r6 == Put(r5, "errorCode", PyStr(ErrorCode(response)))
        r7 == Put(r6, "errorMessage",
                  PyStr(ErrorMessage(response, request_id)))
    IN  BrainServerError(PyDict(
            IF "x-ms-response-time" \in DOMAIN response.headers
            THEN Put(r7, "timeTaken",
                     PyStr(response.headers["x-ms-response-time"]))
            ELSE r7))

\* A body that is not JSON is kept as text under 'value'.
BodyDictTextAsValue(response) ==
    IF Ok(response) /\ response.body.text # <<>>
                    /\ Strip(response.body.text) # <<>>
    THEN IF response.body.json = NoJson
         THEN Put(EmptyDict, "value", PyStr(response.body.text))
         ELSE IF response.body.json.k = "dict" THEN response.body.json.v
         ELSE Put(EmptyDict, "value", response.body.json)
    ELSE EmptyDict

\* The parsed body is tested for truth before it is wrapped.
BodyDictTruthyOnly(response) ==
    IF Ok(response) /\ response.body.text # <<>>
                    /\ Strip(response.body.text) # <<>>
    THEN IF response.body.json = NoJson THEN EmptyDict
         ELSE IF response.body.json.k = "dict" THEN response.body.json.v
         ELSE IF Truthy(response.body.json)
         THEN Put(EmptyDict, "value", response.body.json)
         ELSE EmptyDict
    ELSE EmptyDict

\* response_dict after the body has been read
BodyDict(response) ==
    IF Ok(response) /\ response.body.text # <<>>
                    /\ Strip(response.body.text) # <<>>
    THEN IF response.body.json = NoJson THEN EmptyDict
         ELSE IF response.body.json.k = "dict" THEN response.body.json.v
         ELSE Put(EmptyDict, "value", response.body.json)
    ELSE EmptyDict

\* Only 200 counts as success.
StatusOf200(response) ==
    IF response.status_code = 200 THEN <<"Succeeded">> ELSE <<"Failed">>

\* status
StatusOf(response) == IF Ok(response) THEN <<"Succeeded">> ELSE <<"Failed">>

\* The dict _dict returns.
_dict(response, request_id) ==
    LET d1 == Put(BodyDict(response), "status", PyStr(StatusOf(response)))
        d2 == Put(d1, "statusCode", PyInt(response.status_code))
        d3 == Put(d2, "statusMessage", PyStr(<<>>))
        d4 == Put(d3, "elapsed", response.elapsed)
    IN  IF "x-ms-response-time" \in DOMAIN response.headers
        THEN Put(d4, "timeTaken",
                 PyStr(response.headers["x-ms-response-time"]))
        ELSE d4

-----------------------------------------------------------------------------
(* BonsaiAPI: construction-time configuration *)

TIMEOUT == 300

\* A credential is a text of one-character atoms, so that it can be sliced.
AccessKey == <<"a", "c", "c", "e", "s", "s", "-", "k", "e", "y", "-", "0", "1">>
ShortAccessKey == <<"s", "3", "c", "r", "3", "t">>
DefaultWorkspace == <<"acme">>
ApiUrl == <<"https://api.bons.ai">>
GatewayUrl == <<"https://gateway.bons.ai">>
TenantIds == {PyNone, PyStr(<<"tenant-1">>)}

\* self._user_info
UserInfo == <<"bonsai-cli/", "version", " (python ", "3", "; ", "platform", ")">>

\* requests.Session(), with the proxies of the environment
Session == [k |-> "session", proxies |-> "getproxies()"]

\* The constructor checks everything but the tenant identifier.
MissingArgumentTenantToo(access_key_arg, workspace_id_arg, tenant_id_arg, api_url_arg, gateway_url_arg) ==
    IF access_key_arg = PyNone THEN <<"Access key is missing">>
    ELSE IF workspace_id_arg = PyNone THEN <<"Workspace name is missing">>
    ELSE IF tenant_id_arg = PyNone THEN <<"Tenant id is missing">>
    ELSE IF api_url_arg = PyNone THEN <<"API url is missing">>
    ELSE IF gateway_url_arg = PyNone THEN <<"Gateway url is missing">>
    ELSE <<>>

\* The text of the ValueError the checks of __init__ raise, <<>> when all
\* pass.
MissingArgument(access_key_arg, workspace_id_arg, tenant_id_arg, api_url_arg, gateway_url_arg) ==
    IF access_key_arg = PyNone THEN <<"Access key is missing">>
    ELSE IF workspace_id_arg = PyNone THEN <<"Workspace name is missing">>
    ELSE IF api_url_arg = PyNone THEN <<"API url is missing">>
    ELSE IF gateway_url_arg = PyNone THEN <<"Gateway url is missing">>
    ELSE <<>>

BuiltClient == [kind |-> "return", value |-> PyNone]

\* BonsaiAPI(access_key, workspace_id, tenant_id, api_url, gateway_url): the
\* checks in their order, then the fields, then the transport session.  A
\* check that fails raises before any field is assigned.
__init__(access_key_arg, workspace_id_arg, tenant_id_arg, api_url_arg, gateway_url_arg) ==
    LET missing == MissingArgument(access_key_arg, workspace_id_arg,
                                   tenant_id_arg, api_url_arg, gateway_url_arg)
    IN  /\ init_outcome = [kind |-> "none"]
        /\ IF missing # <<>>
           THEN /\ init_outcome' =
                      [kind |-> "raise",
                       exc |-> [type |-> "ValueError", arg |-> PyStr(missing)]]
                /\ UNCHANGED <<access_key, workspace_id, tenant_id, api_url,
                               gateway_url, session>>
           ELSE /\ access_key' = access_key_arg.v
                /\ workspace_id' = workspace_id_arg.v
                /\ tenant_id' = tenant_id_arg
                /\ api_url' = api_url_arg.v
                /\ gateway_url' = gateway_url_arg.v
                /\ session' = Session
                /\ init_outcome' = BuiltClient
        /\ UNCHANGED <<key_writes, calls, next_uuid, started>>

\* The Authorization header is always the construction-time credential.
_get_headersConstructionKey ==
    Put(Put(EmptyDict, "Authorization", AccessKey), "User-Agent", UserInfo)

_get_headers ==
    Put(Put(EmptyDict, "Authorization", access_key), "User-Agent", UserInfo)

SupportedMethods ==
    {"GET", "DELETE", "PUT", "POST", "PATCH", "POST_RAW", "PUT_RAW"}

\* DELETE is sent like GET, without allow_redirects=False.
SessionCallDeleteFollows(http_method, url, data, headers_out) ==
    LET call(fn, enc, redirects) ==
            [fn |-> fn, url |-> url, headers |-> headers_out, enc |-> enc,
             payload |-> IF enc = "none" THEN PyNone ELSE data,
             allow_redirects |-> redirects, timeout |-> TIMEOUT]
    IN  CASE http_method = "GET" -> call("get", "none", "default")
          [] http_method = "DELETE" -> call("delete", "none", "default")
          [] http_method = "PUT" -> call("put", "json", "False")
          [] http_method = "POST" -> call("post", "json", "False")
          [] http_method = "PATCH" -> call("patch", "json", "False")
          [] http_method = "POST_RAW" -> call("post", "data", "False")
          [] http_method = "PUT_RAW" -> call("put", "data", "False")

\* The call on self._session that _try_http_request makes for http_method.
SessionCall(http_method, url, data, headers_out) ==
    LET call(fn, enc, redirects) ==
            [fn |-> fn, url |-> url, headers |-> headers_out, enc |-> enc,
             payload |-> IF enc = "none" THEN PyNone ELSE data,
             allow_redirects |-> redirects, timeout |-> TIMEOUT]
    IN  CASE http_method = "GET" -> call("get", "none", "default")
          [] http_method = "DELETE" -> call("delete", "none", "False")
          [] http_method = "PUT" -> call("put", "json", "False")
          [] http_method = "POST" -> call("post", "json", "False")
          [] http_method = "PATCH" -> call("patch", "json", "False")
          [] http_method = "POST_RAW" -> call("post", "data", "False")
          [] http_method = "PUT_RAW" -> call("put", "data", "False")

Return(value) == [kind |-> "return", value |-> value]
Raise(exc) == [kind |-> "raise", exc |-> exc]
NoOutcome == [kind |-> "none"]

UsageError == [type |-> "UsageError",
               arg |-> PyStr(<<"UNSUPPORTED HTTP REQUEST METHOD">>)]

\* The redirect test looks for 302 instead of 301.
_raise_on_redirect_302(response) ==
    IF response.status_code = 302
    THEN PyExc("HTTPError",
               <<ToString(response.status_code),
                 " Moved Permanently: Likely misconfigured url: ">>
                  \o api_url)
    ELSE NoExc

\* The HTTPError _raise_on_redirect raises, or NoExc.
_raise_on_redirect(response) ==
    IF response.status_code = 301
    THEN PyExc("HTTPError",
               <<ToString(response.status_code),
                 " Moved Permanently: Likely misconfigured url: ">>
                  \o api_url)
    ELSE NoExc

\* The second try block of _try_http_request: what the attempt ends with once
\* the transport has returned a response.
HandleResponse(response, req_id) ==
    LET e == raise_for_status(response)
        r == _raise_on_redirect(response)
    IN  IF e # NoExc THEN Raise(_handle_and_raise(response, e, req_id))
        ELSE IF r # NoExc THEN Raise(_handle_and_raise(response, r, req_id))
        ELSE Return(PyDict(_dict(response, req_id)))

ConnectionFailure == [kind |-> "ConnectionError"]
TimeoutFailure == [kind |-> "Timeout"]

\* What an attempt ends with, given what the transport did with the request.
AttemptResult(url, req_id, ans) ==
    CASE ans.kind = "ConnectionError" ->
            Raise(BrainServerError(PyStr(
                <<"Connection Error. Unable to connect to domain: ">> \o url
                    \o <<". Request ID: ", req_id>>)))
      [] ans.kind = "Timeout" ->
            Raise(BrainServerError(PyStr(
                <<"Request to ">> \o url
                    \o <<" timed out. Current timeout is ", ToString(TIMEOUT),
                         " seconds. Use the --timeout/-t option to adjust the timeout. Request ID: ",
                         req_id>>)))
      [] ans.kind = "response" ->
            HandleResponse(
                Response(ans.status_code, ans.body, ans.headers, url), req_id)

\* str(err)
StrOfError(exc) == Repr(exc.arg)

\* The test passes whatever the error says.
NeedsAadFallbackAlways(exc) == TRUE

\* The test of _http_request's except branch.
NeedsAadFallback(exc) ==
    \/ Contains(StrOfError(exc), "BonsaiAuthDeprecated")
    \/ Contains(StrOfError(exc), "InvalidUseOfAccessKey")

-----------------------------------------------------------------------------
(* Calls on the client *)

NoResponse == [status_code |-> 0]

IdleCall ==
    [pc |-> "idle", op |-> "none", http_method |-> "", url |-> <<>>,
     data |-> PyNone, headers |-> PyNone, req_id |-> "", sent |-> <<>>,
     provider |-> 0, results |-> <<>>, outcome |-> NoOutcome,
     key0 |-> <<>>, given |-> NoResponse, log |-> <<>>]

\* text[-n:]
LastChars(text, n) ==
    SubSeq(text, IF Len(text) > n THEN Len(text) - n + 1 ELSE 1, Len(text))

\* scrubbed_headers: a copy of the headers in which a non-empty Authorization
\* is the mask followed by the last 10 characters of the credential.
ScrubbedHeaders(headers_out) ==
    IF headers_out["Authorization"] # <<>>
    THEN Put(headers_out, "Authorization",
             <<"***">> \o LastChars(headers_out["Authorization"], 10))
    ELSE headers_out

\* pprint.pformat(d) for the three headers, in the order of their names
pformat(d) ==
    <<"Authorization">> \o d["Authorization"]
        \o <<"RequestId">> \o d["RequestId"]
        \o <<"User-Agent">> \o d["User-Agent"]

\* The lines _try_http_request writes to the debug log before it sends.
DebugLines(http_method, url, headers_out) ==
    << <<"Sending ", http_method, " request to ">> \o url,
       <<http_method, " request headers:\n">>
            \o pformat(ScrubbedHeaders(headers_out)) >>

\* A verb the dispatcher does not know is handed to the transport as it is.
StartAttemptSendsAnyVerb(c) ==
    LET req_id == Uuid(next_uuid + 1)
        headers_out == Put(_get_headers, "RequestId", <<Uuid(next_uuid + 2)>>)
        method == IF c.http_method \in SupportedMethods THEN c.http_method
                  ELSE "GET"
    IN  [c EXCEPT !.pc = "sent", !.req_id = req_id,
                  !.log = @ \o DebugLines(c.http_method, c.url, headers_out),
                  !.sent = Append(@,
                      [req_id |-> req_id,
                       call |-> SessionCall(method, c.url, c.data,
                                            headers_out)])]

\* One run of _try_http_request up to the transport call: the ids are drawn,
\* the headers built from the current credential, dumped to the debug log
\* with the credential scrubbed, and overlaid with the caller's, and the
\* request handed to the transport; an unsupported method
\* raises UsageError instead, which no handler of the dispatcher catches.
StartAttempt(c) ==
    LET req_id == Uuid(next_uuid + 1)
        headers_out == Put(_get_headers, "RequestId", <<Uuid(next_uuid + 2)>>)
        overlaid == IF Truthy(c.headers) THEN Update(headers_out, c.headers.v)
                    ELSE headers_out
    IN  IF c.http_method \in SupportedMethods
        THEN [c EXCEPT !.pc = "sent", !.req_id = req_id,
                       !.log = @ \o DebugLines(c.http_method, c.url,
                                               headers_out),
                       !.sent = Append(@,
                           [req_id |-> req_id,
                            call |-> SessionCall(c.http_method, c.url, c.data,
                                                 overlaid)])]
        ELSE [c EXCEPT !.pc = "done", !.req_id = req_id,
                       !.log = @ \o DebugLines(c.http_method, c.url,
                                               headers_out),
                       !.outcome = Raise(UsageError)]

\* _http_request(http_method, url, data, headers) is entered and makes its
\* first attempt.
_http_request(t, http_method, url, data, headers) ==
    /\ calls[t].pc = "idle"
    /\ started' = started + 1
    /\ next_uuid' = next_uuid + 2
    /\ calls' = [calls EXCEPT ![t] =
            StartAttempt([IdleCall EXCEPT !.op = "_http_request",
                                          !.http_method = http_method,
                                          !.url = url, !.data = data,
                                          !.headers = headers,
                                          !.key0 = access_key])]
    /\ UNCHANGED <<access_key, workspace_id, tenant_id, api_url, gateway_url,
                   session, init_outcome, key_writes>>

_get(t, url) == _http_request(t, "GET", url, PyNone, PyNone)
_delete(t, url) == _http_request(t, "DELETE", url, PyNone, PyNone)
_put(t, url, data) == _http_request(t, "PUT", url, data, PyNone)
_post(t, url, data) == _http_request(t, "POST", url, data, PyNone)
_patch(t, url, data) == _http_request(t, "PATCH", url, data, PyNone)

\* urljoin(base, url_path) for a url_path that starts with "/": the scheme
\* and host of base, then url_path.
urljoin(base, url_path) == <<Head(base)>> \o url_path

\* workspace if workspace else self._workspace_id
WorkspaceName(workspace) ==
    IF Truthy(workspace) THEN workspace.v ELSE workspace_id

_LIST_BRAINS_URL_PATH_TEMPLATE(workspacename) ==
    <<"/v2/workspaces/">> \o workspacename \o <<"/brains">>
_CREATE_BRAIN_URL_PATH_TEMPLATE(workspacename, name) ==
    <<"/v2/workspaces/">> \o workspacename \o <<"/brains/">> \o name
_DELETE_BRAIN_URL_PATH_TEMPLATE(workspacename, name) ==
    <<"/v2/workspaces/">> \o workspacename \o <<"/brains/">> \o name
_LIST_SIM_SESSIONS_URL_PATH_TEMPLATE(workspacename) ==
    <<"/v2/workspaces/">> \o workspacename
        \o <<"/simulatorsessions?deployment_mode=neq:Hosted">>
_GET_SIM_SESSIONS_URL_PATH_TEMPLATE(workspacename, sessionid) ==
    <<"/v2/workspaces/">> \o workspacename \o <<"/simulatorsessions/">>
        \o sessionid
_PATCH_SIM_SESSIONS_URL_PATH_TEMPLATE(workspacename, sessionid) ==
    <<"/v2/workspaces/">> \o workspacename \o <<"/simulatorSessions/">>
        \o sessionid

list_brains(t, workspace) ==
    _get(t, urljoin(api_url,
            _LIST_BRAINS_URL_PATH_TEMPLATE(WorkspaceName(workspace))))

create_brain(t, name, display_name, description, workspace) ==
    _put(t, urljoin(api_url,
            _CREATE_BRAIN_URL_PATH_TEMPLATE(WorkspaceName(workspace), name)),
         PyDict([name |-> PyStr(name), displayName |-> PyStr(display_name),
                 description |-> description]))

delete_brain(t, name, workspace) ==
    _delete(t, urljoin(api_url,
            _DELETE_BRAIN_URL_PATH_TEMPLATE(WorkspaceName(workspace), name)))

list_unmanaged_sim_session(t, workspace) ==
    _get(t, urljoin(gateway_url,
            _LIST_SIM_SESSIONS_URL_PATH_TEMPLATE(WorkspaceName(workspace))))

get_sim_session(t, session_id, workspace) ==
    _get(t, urljoin(gateway_url,
            _GET_SIM_SESSIONS_URL_PATH_TEMPLATE(WorkspaceName(workspace),
                                                session_id)))

\* A template with named fields, as the parts str.format() walks through.
Lit(s) == [k |-> "lit", v |-> s]
Field(name) == [k |-> "field", v |-> name]

_GET_SIM_COLLECTION_URL_PATH_TEMPLATE ==
    <<Lit("/v2/workspaces/"), Field("workspacename"),
      Lit("/simulatorpackages/"), Field("simulatorpackagename"),
      Lit("/simulatorcollections/"), Field("collectionid")>>
_UPDATE_SIM_COLLECTION_URL_PATH_TEMPLATE ==
    <<Lit("/v2/workspaces/"), Field("workspacename"),
      Lit("/simulatorpackages/"), Field("simulatorpackagename"),
      Lit("/simulatorcollections/"), Field("collectionid")>>

\* template.format(**kwargs): the text, or the KeyError for the first field
\* of the template that kwargs does not name. Names are case-sensitive;
\* keyword arguments the template does not use are ignored.
RECURSIVE str_format(_, _)
str_format(template, kwargs) ==
    IF template = <<>> THEN [kind |-> "text", v |-> <<>>]
    ELSE LET part == Head(template)
         IN  IF part.k = "field" /\ part.v \notin DOMAIN kwargs
             THEN [kind |-> "KeyError", v |-> <<part.v>>]
             ELSE LET rest == str_format(Tail(template), kwargs)
                      piece == IF part.k = "field" THEN kwargs[part.v]
                               ELSE <<part.v>>
                  IN  IF rest.kind = "KeyError" THEN rest
                      ELSE [kind |-> "text", v |-> piece \o rest.v]

\* A resource method raises exc before it reaches the dispatcher.
RaiseBeforeDispatch(t, method, exc) ==
    /\ calls[t].pc = "idle"
    /\ started' = started + 1
    /\ calls' = [calls EXCEPT ![t] =
            [IdleCall EXCEPT !.pc = "done", !.op = method,
                             !.key0 = access_key, !.outcome = Raise(exc)]]
    /\ UNCHANGED <<access_key, workspace_id, tenant_id, api_url, gateway_url,
                   session, init_outcome, key_writes, next_uuid>>

get_sim_collection(t, sim_package_name, collection_id, workspace) ==
    LET url_path == str_format(_GET_SIM_COLLECTION_URL_PATH_TEMPLATE,
                        [workspacename |-> WorkspaceName(workspace),
                         simulatorpackagename |-> sim_package_name,
                         collectionid |-> collection_id])
    IN  IF url_path.kind = "KeyError"
        THEN RaiseBeforeDispatch(t, "get_sim_collection",
                [type |-> "KeyError", arg |-> PyStr(url_path.v)])
        ELSE _get(t, urljoin(api_url, url_path.v))

update_sim_collection(t, sim_package_name, collection_id, description, workspace) ==
    LET url_path == str_format(_UPDATE_SIM_COLLECTION_URL_PATH_TEMPLATE,
                        [workspacename |-> WorkspaceName(workspace),
                         simulatorpackageName |-> sim_package_name,
                         collectionid |-> collection_id])
    IN  IF url_path.kind = "KeyError"
        THEN RaiseBeforeDispatch(t, "update_sim_collection",
                [type |-> "KeyError", arg |-> PyStr(url_path.v)])
        ELSE _patch(t, urljoin(api_url, url_path.v),
                    PyDict([description |-> description]))

\* purpose, as json.loads gives it for names without quotes or backslashes
Purpose(purpose_action, brain_name, version, concept_name) ==
    PyDict([action |-> PyStr(purpose_action),
            target |-> PyDict([workspaceName |-> PyStr(workspace_id),
                               brainName |-> PyStr(brain_name),
                               brainVersion |-> PyStr(<<ToString(version)>>),
                               conceptName |-> PyStr(concept_name)])])

\* The purpose target names the workspace of the request path.
patch_sim_sessionPathWorkspace(t, session_id, brain_name, version, purpose_action, concept_name, workspace) ==
    _patch(t, urljoin(gateway_url,
            _PATCH_SIM_SESSIONS_URL_PATH_TEMPLATE(WorkspaceName(workspace),
                                                  session_id)),
           PyDict([purposeOperation |-> PyStr(<<"SetValue">>),
                   purpose |-> PyDict(
                        [action |-> PyStr(purpose_action),
                         target |-> PyDict(
                            [workspaceName |-> PyStr(WorkspaceName(workspace)),
                             brainName |-> PyStr(brain_name),
                             brainVersion |-> PyStr(<<ToString(version)>>),
                             conceptName |-> PyStr(concept_name)])])]))

_CREATE_SIM_COLLECTION_URL_PATH_TEMPLATE ==
    <<Lit("/v2/workspaces/"), Field("workspacename"),
      Lit("/simulatorpackages/"), Field("simulatorpackagename"),
      Lit("/simulatorcollections")>>

create_sim_collection(t, packagename, brain_name, brain_version, concept_name, purpose_action, description, cores_per_instance, memory_in_gb_per_instance, start_instance_count, min_instance_count, max_instance_count, auto_scaling, auto_termination, workspace) ==
    LET url_path == str_format(_CREATE_SIM_COLLECTION_URL_PATH_TEMPLATE,
                        [workspacename |-> WorkspaceName(workspace),
                         simulatorpackagename |-> packagename])
    IN  IF url_path.kind = "KeyError"
        THEN RaiseBeforeDispatch(t, "create_sim_collection",
                [type |-> "KeyError", arg |-> PyStr(url_path.v)])
        ELSE _post(t, urljoin(api_url, url_path.v),
                   PyDict([purpose |-> Purpose(purpose_action, brain_name,
                                               brain_version, concept_name),
                           description |-> description,
                           resourceGroupName |-> PyStr(<<>>),
                           Subscription |-> PyStr(<<>>),
                           coresPerInstance |-> cores_per_instance,
                           memInGBPerInstance |-> memory_in_gb_per_instance,
                           startInstanceCount |-> start_instance_count,
                           minInstanceCount |-> min_instance_count,
                           maxInstanceCount |-> max_instance_count,
                           autoScaling |-> auto_scaling,
                           autoTermination |-> auto_termination]))

patch_sim_session(t, session_id, brain_name, version, purpose_action, concept_name, workspace) ==
    _patch(t, urljoin(gateway_url,
            _PATCH_SIM_SESSIONS_URL_PATH_TEMPLATE(WorkspaceName(workspace),
                                                  session_id)),
           PyDict([purposeOperation |-> PyStr(<<"SetValue">>),
                   purpose |-> Purpose(purpose_action, brain_name, version,
                                       concept_name)]))

-----------------------------------------------------------------------------
(* The dispatcher's steps after the first send *)

\* A retry loop: the retry is made inside the try block as well.
FallbackAppliesEveryAttempt(c, res) ==
    /\ res.kind = "raise"
    /\ res.exc.type = "BrainServerError"
    /\ NeedsAadFallback(res.exc)

\* Whether the attempt of call c that ended with res enters the fallback
\* branch: only the first attempt runs inside the try block, and only a
\* BrainServerError with a sentinel in its text passes the test.
FallbackApplies(c, res) ==
    /\ Len(c.sent) = 1
    /\ res.kind = "raise"
    /\ res.exc.type = "BrainServerError"
    /\ NeedsAadFallback(res.exc)

\* The transport finishes the attempt in flight with ans. A first attempt
\* that enters the fallback branch goes on; everything else ends the call.
Respond(t, ans) ==
    LET c == calls[t]
        res == AttemptResult(c.url, c.req_id, ans)
        fallback == FallbackApplies(c, res)
    IN  /\ c.pc = "sent"
        /\ calls' = [calls EXCEPT ![t] =
                [c EXCEPT !.results = Append(@, res),
                          !.pc = IF fallback THEN "fallback" ELSE "done",
                          !.outcome = IF fallback THEN NoOutcome ELSE res]]
        /\ UNCHANGED <<access_key, workspace_id, tenant_id, api_url,
                       gateway_url, session, init_outcome, key_writes,
                       next_uuid, started>>

\* What AADClient(tenant_id).get_access_token() can end with: a token, or an
\* error of the provider's own.
ProviderTokens ==
    {<<"a", "a", "d", "-", "t", "o", "k", "e", "n", "-", "0", n>> :
        n \in {"1", "2"}}
ProviderFailure ==
    [type |-> "ProviderError", arg |-> PyStr(<<"no token acquired">>)]
ProviderResults ==
    {[kind |-> "token", token |-> tok] : tok \in ProviderTokens}
        \cup {[kind |-> "fail"]}

\* The provider's error is caught: the request is sent again with the
\* credential as it is.
RefreshRetriesAnyway(t, p) ==
    LET c == calls[t]
    IN  /\ c.pc = "fallback"
        /\ access_key' = IF p.kind = "token" THEN p.token ELSE access_key
        /\ key_writes' = IF p.kind = "token" THEN key_writes + 1
                         ELSE key_writes
        /\ calls' = [calls EXCEPT ![t] =
                [c EXCEPT !.provider = @ + 1, !.pc = "retry"]]
        /\ UNCHANGED <<workspace_id, tenant_id, api_url, gateway_url,
                       session, init_outcome, next_uuid, started>>

\* The fallback branch: the provider is asked for a token, which becomes the
\* current credential; the provider's error ends the call.
Refresh(t, p) ==
    LET c == calls[t]
    IN  /\ c.pc = "fallback"
        /\ IF p.kind = "token"
           THEN /\ access_key' = p.token
                /\ key_writes' = key_writes + 1
                /\ calls' = [calls EXCEPT ![t] =
                        [c EXCEPT !.provider = @ + 1, !.pc = "retry"]]
           ELSE /\ access_key' = access_key
                /\ key_writes' = key_writes
                /\ calls' = [calls EXCEPT ![t] =
                        [c EXCEPT !.provider = @ + 1, !.pc = "done",
                                  !.outcome = Raise(ProviderFailure)]]
        /\ UNCHANGED <<workspace_id, tenant_id, api_url, gateway_url,
                       session, init_outcome, next_uuid, started>>

\* The fallback branch re-sends: the second run of _try_http_request.
Retry(t) ==
    /\ calls[t].pc = "retry"
    /\ calls' = [calls EXCEPT ![t] = StartAttempt(calls[t])]
    /\ next_uuid' = next_uuid + 2
    /\ UNCHANGED <<access_key, workspace_id, tenant_id, api_url, gateway_url,
                   session, init_outcome, key_writes, started>>

\* The caller takes the result or the error.
Finish(t) ==
    /\ calls[t].pc = "done"
    /\ calls' = [calls EXCEPT ![t] = IdleCall]
    /\ UNCHANGED <<access_key, workspace_id, tenant_id, api_url, gateway_url,
                   session, init_outcome, key_writes, next_uuid, started>>

\* _dict(response, request_id) called on its own.
Normalize(t, response) ==
    /\ calls[t].pc = "idle"
    /\ started' = started + 1
    /\ calls' = [calls EXCEPT ![t] =
            [IdleCall EXCEPT !.pc = "done", !.op = "_dict",
                             !.given = response,
                             !.outcome = Return(PyDict(_dict(response, "")))]]
    /\ UNCHANGED <<access_key, workspace_id, tenant_id, api_url, gateway_url,
                   session, init_outcome, key_writes, next_uuid>>

\* _handle_and_raise(response, e, request_id) called on its own.
Classify(t, response, e, request_id) ==
    /\ calls[t].pc = "idle"
    /\ started' = started + 1
    /\ calls' = [calls EXCEPT ![t] =
            [IdleCall EXCEPT !.pc = "done", !.op = "_handle_and_raise",
                             !.given = response, !.req_id = request_id,
                             !.outcome =
                                Raise(_handle_and_raise(response, e,
                                                        request_id))]]
    /\ UNCHANGED <<access_key, workspace_id, tenant_id, api_url, gateway_url,
                   session, init_outcome, key_writes, next_uuid>>

-----------------------------------------------------------------------------
(* Inputs *)

WorkspaceArgs ==
    {PyNone, PyStr(<<>>), PyStr(DefaultWorkspace), PyStr(<<"other-ws">>)}
BrainNames == {<<"b1">>, <<"BonsaiAuthDeprecated">>}
SessionIds == {<<"session-1">>}
PackageNames == {<<"pkg1">>}
CollectionIds == {<<"col1">>}

\* Caller-supplied extra headers
ExtraHeaders ==
    {PyNone,
     PyDict([h \in {"Authorization"} |-> <<"caller-supplied-auth">>]),
     PyDict([h \in {"RequestId"} |-> <<"caller-supplied-id">>])}

AllMethods == SupportedMethods \cup {"HEAD"}
DirectUrl == <<"https://api.bons.ai", "/v2/workspaces/", "acme", "/brains">>
DirectData == PyDict([name |-> PyStr(<<"b1">>)])
DirectRequestId == "request-id-1"

AllResponses ==
    {Response(s, b, h, DirectUrl) :
        s \in StatusCodes, b \in Bodies, h \in HeaderSets}

\* What the transport does with a request
DispatchAnswers ==
    {ConnectionFailure, TimeoutFailure}
        \cup {Answer(s, b, h) :
                s \in {200, 302, 401},
                b \in {BodyEmpty, BodyHtml, BodyObj, BodyArr, BodyConflict,
                       BodyDeprecated},
                h \in {EmptyDict, Update(SpanHeader, TimingHeader)}}
        \cup {Answer(301, b, h) :
                b \in Bodies,
                h \in {EmptyDict, Update(SpanHeader, TimingHeader)}}

ConcAnswers ==
    {ConnectionFailure, Answer(200, BodyObj, EmptyDict),
     Answer(401, BodyDeprecated, EmptyDict)}

-----------------------------------------------------------------------------
(* Specifications *)

InitClient(threads, tenants) ==
    /\ access_key = AccessKey
    /\ workspace_id = DefaultWorkspace
    /\ tenant_id \in tenants
    /\ api_url = ApiUrl
    /\ gateway_url = GatewayUrl
    /\ session = Session
    /\ init_outcome = BuiltClient
    /\ key_writes = 0
    /\ calls = [t \in threads |-> IdleCall]
    /\ next_uuid = 0
    /\ started = 0

\* One caller makes up to MaxCalls calls, one after another, with any input.
Threads == {1}
Fresh == started < MaxCalls

Init == InitClient(Threads, {PyStr(<<"tenant-1">>)})

Next ==
    \E t \in Threads :
        \/ \E m \in AllMethods :
                Fresh /\ _http_request(t, m, DirectUrl, DirectData, PyNone)
        \/ \E m \in {"GET", "POST"}, h \in ExtraHeaders :
                Fresh /\ _http_request(t, m, DirectUrl, DirectData, h)
        \/ \E w \in WorkspaceArgs : Fresh /\ list_brains(t, w)
        \/ \E n \in BrainNames, w \in WorkspaceArgs :
                Fresh /\ create_brain(t, n, <<"B1">>, PyNone, w)
        \/ \E n \in BrainNames : Fresh /\ delete_brain(t, n, PyNone)
        \/ \E w \in WorkspaceArgs : Fresh /\ list_unmanaged_sim_session(t, w)
        \/ \E s \in SessionIds : Fresh /\ get_sim_session(t, s, PyNone)
        \/ \E s \in SessionIds, w \in WorkspaceArgs :
                Fresh /\ patch_sim_session(t, s, <<"b1">>, 1, <<"Train">>,
                                           <<"concept">>, w)
        \/ \E n \in PackageNames, w \in WorkspaceArgs :
                Fresh /\ create_sim_collection(t, n, <<"b1">>, 1, <<"concept">>,
                            <<"Train">>, PyNone, PyNone, PyNone, PyNone,
                            PyNone, PyNone, PyNone, PyNone, w)
        \/ \E n \in PackageNames, id \in CollectionIds, w \in WorkspaceArgs :
                Fresh /\ get_sim_collection(t, n, id, w)
        \/ \E n \in PackageNames, id \in CollectionIds, w \in WorkspaceArgs :
                Fresh /\ update_sim_collection(t, n, id, PyNone, w)
        \/ \E ans \in DispatchAnswers : Respond(t, ans)
        \/ \E p \in ProviderResults : Refresh(t, p)
        \/ Retry(t)
        \/ Finish(t)
        \/ \E r \in AllResponses : Fresh /\ Normalize(t, r)
        \/ \E r \in AllResponses :
                /\ Fresh
                /\ raise_for_status(r) # NoExc
                /\ Classify(t, r, raise_for_status(r), DirectRequestId)

Spec == Init /\ [][Next]_vars

\* Two callers share the client without synchronization and make up to
\* MaxConcCalls calls, one after another or interleaved.
ConcThreads == {1, 2}

InitConc == InitClient(ConcThreads, TenantIds)

NextConc ==
    \E t \in ConcThreads :
        \/ started < MaxConcCalls /\ list_brains(t, PyNone)
        \/ \E ans \in ConcAnswers : Respond(t, ans)
        \/ \E p \in ProviderResults : Refresh(t, p)
        \/ Retry(t)
        \/ Finish(t)

SpecConc == InitConc /\ [][NextConc]_vars

\* One caller makes up to MaxSeqCalls calls, one after another, each of which
\* can meet a sentinel error.
InitSeq == InitClient(Threads, {PyStr(<<"tenant-1">>)})

NextSeq ==
    \E t \in Threads :
        \/ started < MaxSeqCalls /\ list_brains(t, PyNone)
        \/ \E h \in ExtraHeaders :
                /\ started < MaxSeqCalls
                /\ _http_request(t, "POST", DirectUrl, DirectData, h)
        \/ \E ans \in ConcAnswers : Respond(t, ans)
        \/ \E p \in ProviderResults : Refresh(t, p)
        \/ Retry(t)
        \/ Finish(t)

SpecSeq == InitSeq /\ [][NextSeq]_vars

\* The client from before its construction: __init__ runs once with any
\* arguments, and the caller of a client that was built makes up to MaxCalls
\* calls.
AccessKeyArgs == {PyNone, PyStr(AccessKey), PyStr(ShortAccessKey)}
WorkspaceIdArgs == {PyNone, PyStr(DefaultWorkspace)}
ApiUrlArgs == {PyNone, PyStr(ApiUrl)}
GatewayUrlArgs == {PyNone, PyStr(GatewayUrl)}

Built == init_outcome = BuiltClient

InitConstruct ==
    /\ access_key = <<>>
    /\ workspace_id = <<>>
    /\ tenant_id = PyNone
    /\ api_url = <<>>
    /\ gateway_url = <<>>
    /\ session = PyNone
    /\ init_outcome = NoOutcome
    /\ key_writes = 0
    /\ calls = [t \in Threads |-> IdleCall]
    /\ next_uuid = 0
    /\ started = 0

NextConstruct ==
    \/ \E k \in AccessKeyArgs, w \in WorkspaceIdArgs, tn \in TenantIds,
          a \in ApiUrlArgs, g \in GatewayUrlArgs : __init__(k, w, tn, a, g)
    \/ \E t \in Threads :
        \/ Built /\ Fresh /\ list_brains(t, PyNone)
        \/ \E m \in {"GET", "POST", "HEAD"}, h \in ExtraHeaders :
                Built /\ Fresh /\ _http_request(t, m, DirectUrl, DirectData, h)
        \/ \E ans \in ConcAnswers : Respond(t, ans)
        \/ \E p \in ProviderResults : Refresh(t, p)
        \/ Retry(t)
        \/ Finish(t)

SpecConstruct == InitConstruct /\ [][NextConstruct]_vars

-----------------------------------------------------------------------------
(* Properties *)

Sentinels == {"BonsaiAuthDeprecated", "InvalidUseOfAccessKey"}

\* The attempt ended with a BrainServerError whose text holds a sentinel.
SentinelRaised(res) ==
    /\ res.kind = "raise"
    /\ res.exc.type = "BrainServerError"
    /\ \E i \in DOMAIN Repr(res.exc.arg) : Repr(res.exc.arg)[i] \in Sentinels

\* The attempt ended with the error built for a connection failure or a
\* timeout.
TransportFailed(res) ==
    /\ res.kind = "raise"
    /\ res.exc.type = "BrainServerError"
    /\ res.exc.arg.k = "str"

\* Two transport invocations carry the same verb, URL and payload, and the
\* same caller-supplied headers.
SameRequest(c, a, b) ==
    /\ a.fn = b.fn
    /\ a.url = b.url
    /\ a.enc = b.enc
    /\ a.payload = b.payload
    /\ a.allow_redirects = b.allow_redirects
    /\ Truthy(c.headers) =>
          \A h \in DOMAIN c.headers.v :
              a.headers[h] = c.headers.v[h] /\ b.headers[h] = c.headers.v[h]

NonErrorStatus(status_code) == ~(400 <= status_code /\ status_code < 600)

StatusKeys == {"status", "statusCode", "statusMessage", "elapsed", "timeTaken"}

\* The HTTP status an attempt's result reports, 0 when it reports none.
ReportedStatus(res) ==
    IF res.kind = "return" THEN res.value.v["statusCode"].v
    ELSE IF res.exc.arg.k = "dict" THEN res.exc.arg.v["statusCode"].v
    ELSE 0

RedirectText == " Moved Permanently: Likely misconfigured url: "

\* C1 as stated: no call sends a third time or asks the provider twice; a
\* dispatch whose first attempt raised a sentinel error has, when it ends,
\* asked the provider once and, the token obtained, stored it and sent the
\* same request a second time with the stored token as Authorization and
\* another correlation id; its result is the retry's.
C1_Original ==
    \A t \in DOMAIN calls :
        LET c == calls[t]
        IN  c.op = "_http_request" =>
              /\ Len(c.sent) <= 2
              /\ c.provider <= 1
              /\ (c.pc = "done" /\ Len(c.results) >= 1
                    /\ SentinelRaised(c.results[1])) =>
                    /\ c.provider = 1
                    /\ c.outcome # Raise(ProviderFailure) =>
                        /\ access_key \in ProviderTokens
                        /\ Len(c.sent) = 2
                        /\ Len(c.results) = 2
                        /\ SameRequest(c, c.sent[1].call, c.sent[2].call)
                        /\ c.sent[2].call.headers["Authorization"] = access_key
                        /\ c.sent[2].req_id # c.sent[1].req_id
                        /\ c.outcome = c.results[2]

\* C1 as amended: the same, with the caller's own Authorization header, when
\* the extra headers carry one, in place of the stored token.
C1_FallbackOnce ==
    \A t \in DOMAIN calls :
        LET c == calls[t]
            overridden == Truthy(c.headers)
                            /\ "Authorization" \in DOMAIN c.headers.v
        IN  c.op = "_http_request" =>
              /\ Len(c.sent) <= 2
              /\ c.provider <= 1
              /\ (c.pc = "done" /\ Len(c.results) >= 1
                    /\ SentinelRaised(c.results[1])) =>
                    /\ c.provider = 1
                    /\ c.outcome # Raise(ProviderFailure) =>
                        /\ access_key \in ProviderTokens
                        /\ Len(c.sent) = 2
                        /\ Len(c.results) = 2
                        /\ SameRequest(c, c.sent[1].call, c.sent[2].call)
                        /\ c.sent[2].call.headers["Authorization"] =
                              IF overridden THEN c.headers.v["Authorization"]
                              ELSE access_key
                        /\ c.sent[2].req_id # c.sent[1].req_id
                        /\ c.outcome = c.results[2]

\* A retry that failed with a sentinel error again, and ended the call.
C1_Witness ==
    \E t \in DOMAIN calls :
        /\ calls[t].pc = "done"
        /\ Len(calls[t].sent) = 2
        /\ SentinelRaised(calls[t].results[1])
        /\ SentinelRaised(calls[t].outcome)


\* C2 as stated: a call whose first attempt ended with a connection failure
\* or a timeout makes one transport invocation, never asks the provider,
\* leaves the credential as it was, and ends with that attempt's error, which
\* carries the request URL and the attempt's correlation id.
C2_Original ==
    \A t \in DOMAIN calls :
        LET c == calls[t]
        IN  (c.op = "_http_request" /\ Len(c.results) >= 1
                /\ TransportFailed(c.results[1])) =>
              /\ Len(c.sent) = 1
              /\ c.provider = 0
              /\ access_key = c.key0
              /\ c.pc = "done" =>
                    /\ c.outcome = c.results[1]
                    /\ \A i \in DOMAIN c.url :
                          Contains(c.outcome.exc.arg.v, c.url[i])
                    /\ Contains(c.outcome.exc.arg.v, c.sent[1].req_id)

C5_Redirect301Raises ==
    \A t \in DOMAIN calls :
        \A i \in DOMAIN calls[t].results :
            LET res == calls[t].results[i]
            IN  ReportedStatus(res) = 301 =>
                  /\ res.kind = "raise"
                  /\ res.exc.type = "BrainServerError"
                  /\ res.exc.arg.v["exception"].type = "HTTPError"
                  /\ res.exc.arg.v["exception"].v[2] = RedirectText

\* A PATCH answered with 301 and a JSON object body has raised.
C5_Witness ==
    \E t \in DOMAIN calls :
        /\ calls[t].http_method = "PATCH"
        /\ calls[t].pc = "done"
        /\ calls[t].outcome.kind = "raise"
        /\ ReportedStatus(calls[t].outcome) = 301
        /\ calls[t].outcome.exc.arg.v["errorDump"] = BodyObj.json

\* C6 as stated: the URL the 301 error names is the base URL (API or
\* gateway) the request was addressed to.
C6_Original ==
    \A t \in DOMAIN calls :
        \A i \in DOMAIN calls[t].results :
            LET res == calls[t].results[i]
            IN  (res.kind = "raise" /\ ReportedStatus(res) = 301) =>
                  LET text == res.exc.arg.v["exception"].v
                  IN  SubSeq(text, 3, Len(text)) = <<Head(calls[t].url)>>

\* C7: the record _dict builds says Succeeded exactly for a non-error HTTP
\* status and Failed otherwise; a record a dispatch returns says Succeeded
\* and holds a non-error status code other than 301; an error built from a
\* response says Failed.
C7_StatusMatchesHttpStatus ==
    \A t \in DOMAIN calls :
        LET c == calls[t]
        IN  /\ (c.op = "_dict" /\ c.pc = "done") =>
                  c.outcome.value.v["status"] =
                      IF NonErrorStatus(c.given.status_code)
                      THEN PyStr(<<"Succeeded">>) ELSE PyStr(<<"Failed">>)
            /\ (c.op = "_http_request" /\ c.outcome.kind = "return") =>
                  /\ c.outcome.value.v["status"] = PyStr(<<"Succeeded">>)
                  /\ NonErrorStatus(c.outcome.value.v["statusCode"].v)
                  /\ c.outcome.value.v["statusCode"].v # 301
            /\ \A i \in DOMAIN c.results :
                  (c.results[i].kind = "raise"
                        /\ c.results[i].exc.arg.k = "dict") =>
                      c.results[i].exc.arg.v["status"] = PyStr(<<"Failed">>)

\* A dispatch has returned a record for a 302 answer.
C7_Witness ==
    \E t \in DOMAIN calls :
        /\ calls[t].op = "_http_request"
        /\ calls[t].outcome.kind = "return"
        /\ calls[t].outcome.value.v["statusCode"] = PyInt(302)
        /\ calls[t].outcome.value.v["status"] = PyStr(<<"Succeeded">>)


\* C4: a call whose first attempt returned a record, or raised an error
\* without a sentinel, has ended after one transport invocation and no
\* provider request; the credential changes only in the step in which a call
\* in the fallback branch stores the provider's token; and a credential that
\* is no longer the construction-time key never becomes it again.
C4_CredentialWrites ==
    /\ [](\A t \in DOMAIN calls :
            LET c == calls[t]
            IN  (c.op = "_http_request" /\ Len(c.results) >= 1
                    /\ ~SentinelRaised(c.results[1])) =>
                  /\ Len(c.sent) = 1
                  /\ c.provider = 0
                  /\ c.pc = "done")
    /\ [][access_key' # access_key =>
            \E t \in DOMAIN calls :
                /\ calls[t].pc = "fallback"
                /\ calls'[t].pc = "retry"
                /\ calls'[t].provider = calls[t].provider + 1
                /\ access_key' \in ProviderTokens]_vars
    /\ [][access_key # AccessKey => access_key' # AccessKey]_vars

\* A call that started with the construction-time key and failed without a
\* sentinel has ended, while another call replaced the credential.
C4_Witness ==
    \E t \in DOMAIN calls :
        /\ calls[t].pc = "done"
        /\ calls[t].key0 = AccessKey
        /\ calls[t].outcome.kind = "raise"
        /\ ~SentinelRaised(calls[t].outcome)
        /\ Len(calls[t].sent) = 1
        /\ calls[t].provider = 0
        /\ access_key \in ProviderTokens

\* C8 as stated: for a JSON object body on a success status, none of the
\* five status keys of the record holds the value the body gave for it.
C8_Original ==
    \A t \in DOMAIN calls :
        LET c == calls[t]
        IN  (c.op = "_dict" /\ c.pc = "done"
                /\ NonErrorStatus(c.given.status_code)
                /\ c.given.body.json.k = "dict") =>
              \A key \in StatusKeys \cap DOMAIN c.given.body.json.v :
                  key \in DOMAIN c.outcome.value.v =>
                      c.outcome.value.v[key] # c.given.body.json.v[key]

C10_NoBodyDataLost ==
    \A t \in DOMAIN calls :
        LET c == calls[t]
        IN  (c.op = "_dict" /\ c.pc = "done"
                /\ NonErrorStatus(c.given.status_code)
                /\ c.given.body.json # NoJson) =>
              IF c.given.body.json.k = "dict"
              THEN \A key \in DOMAIN c.given.body.json.v \ StatusKeys :
                      /\ key \in DOMAIN c.outcome.value.v
                      /\ c.outcome.value.v[key] = c.given.body.json.v[key]
              ELSE /\ "value" \in DOMAIN c.outcome.value.v
                   /\ c.outcome.value.v["value"] = c.given.body.json
                   /\ {"status", "statusCode", "statusMessage", "elapsed"}
                        \subseteq DOMAIN c.outcome.value.v

\* _dict has returned the number 0 under 'value'.
C10_Witness ==
    \E t \in DOMAIN calls :
        /\ calls[t].op = "_dict"
        /\ calls[t].pc = "done"
        /\ calls[t].given.body = BodyZero
        /\ "value" \in DOMAIN calls[t].outcome.value.v
        /\ calls[t].outcome.value.v["value"] = PyInt(0)


\* C11: a construction that raised did so with ValueError, created no
\* session, assigned no field, started no call and drew no id; and __init__
\* raises exactly when the credential, the workspace, the API URL or the
\* gateway URL is None, whatever the tenant identifier is.
C11_ConstructionChecks ==
    /\ [](init_outcome.kind = "raise" =>
            /\ init_outcome.exc.type = "ValueError"
            /\ session = PyNone
            /\ access_key = <<>> /\ workspace_id = <<>> /\ api_url = <<>>
            /\ gateway_url = <<>> /\ tenant_id = PyNone
            /\ started = 0 /\ next_uuid = 0
            /\ \A t \in DOMAIN calls : calls[t] = IdleCall)
    /\ [](started > 0 => Built /\ session = Session)
    /\ [][\A k \in AccessKeyArgs, w \in WorkspaceIdArgs, tn \in TenantIds,
             a \in ApiUrlArgs, g \in GatewayUrlArgs :
                __init__(k, w, tn, a, g) =>
                    IF PyNone \in {k, w, a, g}
                    THEN init_outcome'.kind = "raise"
                    ELSE /\ init_outcome' = BuiltClient
                         /\ tenant_id' = tn
                         /\ session' = Session]_vars

\* A client built without a tenant identifier has finished a call.
C11_Witness ==
    /\ Built
    /\ tenant_id = PyNone
    /\ \E t \in DOMAIN calls : calls[t].pc = "done"

\* C12: every transport invocation of a call, the first and the retry, is
\* made with allow_redirects=False when the verb is not GET, and without an
\* allow_redirects argument when it is GET.
C12_RedirectsOffExceptGet ==
    \A t \in DOMAIN calls :
        \A i \in DOMAIN calls[t].sent :
            calls[t].sent[i].call.allow_redirects =
                IF calls[t].http_method = "GET" THEN "default" ELSE "False"

\* A POST_RAW has been sent twice, the second time as the fallback retry.
C12_Witness ==
    \E t \in DOMAIN calls :
        /\ calls[t].http_method = "POST_RAW"
        /\ Len(calls[t].sent) = 2
        /\ calls[t].provider = 1
        /\ calls[t].sent[2].call.allow_redirects = "False"

\* C13: a dispatch with a verb outside the seven supported ones has ended
\* with UsageError, with no transport invocation, no attempt result, no
\* provider request and the credential it started with.
C13_UnsupportedVerbFailsUnsent ==
    \A t \in DOMAIN calls :
        LET c == calls[t]
        IN  (c.op = "_http_request" /\ c.http_method \notin SupportedMethods) =>
              /\ c.pc = "done"
              /\ c.outcome = Raise(UsageError)
              /\ c.sent = <<>>
              /\ c.results = <<>>
              /\ c.provider = 0
              /\ access_key = c.key0

\* A HEAD dispatch has ended with UsageError.
C13_Witness ==
    \E t \in DOMAIN calls :
        /\ calls[t].op = "_http_request"
        /\ calls[t].http_method = "HEAD"
        /\ calls[t].pc = "done"
        /\ calls[t].outcome.exc.type = "UsageError"

\* The code and the message an error body gives, as the server wrote them.
GivenCode(body) ==
    CASE body \in {BodyConflict, BodyCodeOnly} -> <<"Conflict">>
      [] body = BodyDeprecated -> <<"BonsaiAuthDeprecated">>
      [] body = BodyInvalidUse -> <<"Unauthorized">>
      [] OTHER -> <<>>

GivenMessage(body) ==
    CASE body \in {BodyConflict, BodyMessageOnly} -> <<"exists">>
      [] body = BodyDeprecated -> <<"use AAD">>
      [] body = BodyInvalidUse -> <<"rejected: ", "InvalidUseOfAccessKey">>
      [] OTHER -> <<>>

\* C14: the error built from an error response is a BrainServerError whose
\* errorCode is the code sentence around the body's error.code when the body
\* gives one and the empty string otherwise, and whose errorMessage starts
\* with the body's error.message when the body gives one and with
\* 'Request failed.' otherwise, each of the two whatever the other is.
C14_EnvelopeFieldsIndependent ==
    \A t \in DOMAIN calls :
        LET c == calls[t]
            code == GivenCode(c.given.body)
            message == GivenMessage(c.given.body)
        IN  (c.op = "_handle_and_raise" /\ c.pc = "done") =>
              /\ c.outcome.kind = "raise"
              /\ c.outcome.exc.type = "BrainServerError"
              /\ c.outcome.exc.arg.k = "dict"
              /\ c.outcome.exc.arg.v["errorCode"].v =
                    IF code = <<>> THEN <<>>
                    ELSE <<"Request failed with error code \"">> \o code
                            \o <<"\"">>
              /\ LET text == c.outcome.exc.arg.v["errorMessage"].v
                 IN  IF message = <<>> THEN Head(text) = "Request failed."
                     ELSE SubSeq(text, 1, 1 + Len(message)) =
                            <<"Error message: ">> \o message

\* An error was built from a 409 whose body gives a code and no message.
C14_Witness ==
    \E t \in DOMAIN calls :
        /\ calls[t].op = "_handle_and_raise"
        /\ calls[t].pc = "done"
        /\ calls[t].given.status_code = 409
        /\ calls[t].given.body = BodyCodeOnly
        /\ Contains(calls[t].outcome.exc.arg.v["errorCode"].v, "Conflict")
        /\ Head(calls[t].outcome.exc.arg.v["errorMessage"].v) = "Request failed."

\* C18: the error built from an error response, whatever its body and
\* whichever of the span and timing headers it carries, says Failed and
\* holds the status code, the elapsed time, the exception given, the dump,
\* the code string and a message with the correlation id; the message names
\* the span id exactly when the span header is there, and timeTaken is set,
\* to the header's value, exactly when the timing header is there.
C18_ErrorFieldsSurviveMissingHeaders ==
    \A t \in DOMAIN calls :
        LET c == calls[t]
            err == c.outcome.exc.arg.v
            text == err["errorMessage"].v
            span == "SpanID" \in DOMAIN c.given.headers
            timing == "x-ms-response-time" \in DOMAIN c.given.headers
        IN  (c.op = "_handle_and_raise" /\ c.pc = "done") =>
              /\ DOMAIN err =
                    {"errorDump", "status", "statusCode", "elapsed",
                     "exception", "errorCode", "errorMessage"}
                        \cup (IF timing THEN {"timeTaken"} ELSE {})
              /\ err["status"] = PyStr(<<"Failed">>)
              /\ err["statusCode"] = PyInt(c.given.status_code)
              /\ err["elapsed"] = c.given.elapsed
              /\ err["exception"].type = "HTTPError"
              /\ err["errorCode"].k = "str"
              /\ \E i \in DOMAIN text :
                    /\ text[i] = " Request ID: "
                    /\ i < Len(text)
                    /\ text[i + 1] = c.req_id
              /\ Contains(text, " Span ID: ") <=> span
              /\ span => SubSeq(text, Len(text) - 1, Len(text)) =
                            <<" Span ID: ">> \o c.given.headers["SpanID"]
              /\ timing => err["timeTaken"] =
                            PyStr(c.given.headers["x-ms-response-time"])

\* An error was built from a response with a non-JSON body and neither
\* header.
C18_Witness ==
    \E t \in DOMAIN calls :
        /\ calls[t].op = "_handle_and_raise"
        /\ calls[t].pc = "done"
        /\ calls[t].given.body = BodyHtml
        /\ DOMAIN calls[t].given.headers = {}
        /\ Contains(calls[t].outcome.exc.arg.v["errorMessage"].v,
                    DirectRequestId)

\* C15 as stated: every BrainServerError a dispatch ends with has the one
\* shape: a record with a message that holds the correlation id of the
\* attempt that failed, the HTTP status code and the elapsed time.
C15_Original ==
    \A t \in DOMAIN calls :
        LET c == calls[t]
        IN  (c.op = "_http_request" /\ c.pc = "done"
                /\ c.outcome.kind = "raise"
                /\ c.outcome.exc.type = "BrainServerError") =>
              /\ c.outcome.exc.arg.k = "dict"
              /\ {"errorMessage", "statusCode", "elapsed"}
                    \subseteq DOMAIN c.outcome.exc.arg.v
              /\ Contains(c.outcome.exc.arg.v["errorMessage"].v,
                          c.sent[Len(c.sent)].req_id)

\* The workspace segment a resource method is to use.
ExpectedWorkspace(workspace) ==
    IF workspace \in {PyNone, PyStr(<<>>)} THEN workspace_id ELSE workspace.v

\* The step has entered the dispatcher once, with this verb and URL.
Dispatched(t, verb, base, url_path) ==
    /\ calls'[t].op = "_http_request"
    /\ calls'[t].http_method = verb
    /\ calls'[t].url = <<Head(base)>> \o url_path
    /\ Len(calls'[t].sent) = 1
    /\ calls'[t].sent[1].call.url = calls'[t].url
    /\ started' = started + 1

\* C16 as stated: a step of a resource method enters the dispatcher once,
\* with the method's verb and the path of its template, whose workspace
\* segment is the workspace argument when one is given and the client's
\* default workspace otherwise.
C16_Original ==
    [][\A t \in Threads, w \in WorkspaceArgs :
        LET ws == ExpectedWorkspace(w)
        IN  /\ list_brains(t, w) =>
                Dispatched(t, "GET", api_url,
                           <<"/v2/workspaces/">> \o ws \o <<"/brains">>)
            /\ \A n \in BrainNames :
                  /\ create_brain(t, n, <<"B1">>, PyNone, w) =>
                        Dispatched(t, "PUT", api_url,
                            <<"/v2/workspaces/">> \o ws \o <<"/brains/">> \o n)
                  /\ delete_brain(t, n, w) =>
                        Dispatched(t, "DELETE", api_url,
                            <<"/v2/workspaces/">> \o ws \o <<"/brains/">> \o n)
            /\ list_unmanaged_sim_session(t, w) =>
                Dispatched(t, "GET", gateway_url,
                    <<"/v2/workspaces/">> \o ws
                        \o <<"/simulatorsessions?deployment_mode=neq:Hosted">>)
            /\ \A id \in SessionIds :
                  /\ get_sim_session(t, id, w) =>
                        Dispatched(t, "GET", gateway_url,
                            <<"/v2/workspaces/">> \o ws
                                \o <<"/simulatorsessions/">> \o id)
                  /\ patch_sim_session(t, id, <<"b1">>, 1, <<"Train">>,
                                       <<"concept">>, w) =>
                        Dispatched(t, "PATCH", gateway_url,
                            <<"/v2/workspaces/">> \o ws
                                \o <<"/simulatorSessions/">> \o id)
            /\ \A n \in PackageNames, id \in CollectionIds :
                  /\ get_sim_collection(t, n, id, w) =>
                        Dispatched(t, "GET", api_url,
                            <<"/v2/workspaces/">> \o ws
                                \o <<"/simulatorpackages/">> \o n
                                \o <<"/simulatorcollections/">> \o id)
                  /\ update_sim_collection(t, n, id, PyNone, w) =>
                        Dispatched(t, "PATCH", api_url,
                            <<"/v2/workspaces/">> \o ws
                                \o <<"/simulatorpackages/">> \o n
                                \o <<"/simulatorcollections/">> \o id)]_vars

\* C17 as stated: the id an attempt sends in its RequestId header is in the
\* text of the error the attempt raises, and no two attempts of a call share
\* a header id or a message id.
C17_Original ==
    \A t \in DOMAIN calls :
        LET c == calls[t]
        IN  /\ \A i \in DOMAIN c.results :
                  c.results[i].kind = "raise" =>
                      Contains(Repr(c.results[i].exc.arg),
                               Head(c.sent[i].call.headers["RequestId"]))
            /\ \A i, j \in DOMAIN c.sent :
                  i # j =>
                      /\ c.sent[i].req_id # c.sent[j].req_id
                      /\ c.sent[i].call.headers["RequestId"] #
                            c.sent[j].call.headers["RequestId"]

\* text holds s as a run of consecutive characters.
HasSubSeq(text, s) ==
    \E i \in 1..(Len(text) - Len(s) + 1) : SubSeq(text, i, i + Len(s) - 1) = s

\* C19 as stated: the header dump of an attempt shows the mask and then the
\* last 10 characters of the credential the attempt was built from, and no
\* line of the call's debug log holds that credential complete.
C19_Original ==
    \A t \in DOMAIN calls :
        LET c == calls[t]
        IN  (c.op = "_http_request" /\ Len(c.log) >= 2 /\ c.key0 # <<>>) =>
              /\ HasSubSeq(c.log[2], <<"Authorization", "***">>
                                        \o LastChars(c.key0, 10)
                                        \o <<"RequestId">>)
              /\ \A i \in DOMAIN c.log : ~HasSubSeq(c.log[i], c.key0)

\* C20: the first attempt of a call sends the credential stored when the
\* call starts, the token of the latest replacement once there was one,
\* unless the extra headers carry an Authorization of their own; a call asks
\* the provider and replaces the credential at most once; the credential is
\* replaced, once, in exactly the steps in which a call whose first attempt
\* raised a sentinel error obtains the provider's token, so that the
\* replacements are as many as those calls; and such a call never goes on
\* without having replaced it.
C20_ReplacementsPersistAndCount ==
    /\ [][\A t \in DOMAIN calls :
            (calls[t].pc = "idle" /\ calls'[t].pc = "sent") =>
                LET c == calls'[t]
                    overridden == Truthy(c.headers)
                                    /\ "Authorization" \in DOMAIN c.headers.v
                IN  /\ c.sent[1].call.headers["Authorization"] =
                          IF overridden THEN c.headers.v["Authorization"]
                          ELSE access_key
                    /\ key_writes > 0 => access_key \in ProviderTokens]_vars
    /\ [](\A t \in DOMAIN calls :
            LET c == calls[t]
            IN  /\ c.provider <= 1
                /\ (Len(c.sent) = 2
                        \/ (c.pc \in {"retry", "done"} /\ Len(c.results) >= 1
                                /\ SentinelRaised(c.results[1])
                                /\ c.outcome # Raise(ProviderFailure))) =>
                      /\ c.provider = 1
                      /\ SentinelRaised(c.results[1])
                      /\ key_writes >= 1
                      /\ access_key \in ProviderTokens)
    /\ [][key_writes' # key_writes =>
            /\ key_writes' = key_writes + 1
            /\ access_key' \in ProviderTokens
            /\ \E t \in DOMAIN calls :
                  /\ calls[t].pc = "fallback"
                  /\ Len(calls[t].sent) = 1
                  /\ SentinelRaised(calls[t].results[1])
                  /\ calls[t].provider = 0
                  /\ calls'[t].provider = 1
                  /\ calls'[t].pc = "retry"]_vars
    /\ [][access_key' # access_key => key_writes' = key_writes + 1]_vars

\* A later call started with the token an earlier call had stored, sent it,
\* met a sentinel error again and replaced the credential a second time.
C20_Witness ==
    \E t \in DOMAIN calls :
        /\ key_writes = 2
        /\ calls[t].key0 \in ProviderTokens
        /\ calls[t].sent[1].call.headers["Authorization"] = calls[t].key0
        /\ calls[t].provider = 1
        /\ Len(calls[t].sent) = 2
        /\ calls[t].sent[2].call.headers["Authorization"] = access_key

TargetWorkspace(data) == data.v["purpose"].v["target"].v["workspaceName"]

\* C22: the purpose target of every payload sent names the client's default
\* workspace; a step of patch_sim_session or create_sim_collection puts the
\* workspace argument, or the default when none is given, into the path and
\* the default into the payload, so that the two agree exactly when the
\* path's workspace is the default.
C22_PayloadNamesDefaultWorkspace ==
    /\ [](\A t \in DOMAIN calls :
            \A i \in DOMAIN calls[t].sent :
                LET payload == calls[t].sent[i].call.payload
                IN  (payload.k = "dict" /\ "purpose" \in DOMAIN payload.v) =>
                        TargetWorkspace(payload) = PyStr(workspace_id))
    /\ [][\A t \in Threads, w \in WorkspaceArgs :
            LET c == calls'[t]
                explicit == w \notin {PyNone, PyStr(<<>>)}
                agrees == TargetWorkspace(c.data).v = <<c.url[3]>>
                holds == /\ c.url[2] = "/v2/workspaces/"
                         /\ <<c.url[3]>> = IF explicit THEN w.v
                                           ELSE workspace_id
                         /\ TargetWorkspace(c.data) = PyStr(workspace_id)
                         /\ agrees <=> (~explicit \/ w.v = workspace_id)
            IN  /\ \A id \in SessionIds :
                      patch_sim_session(t, id, <<"b1">>, 1, <<"Train">>,
                                        <<"concept">>, w) => holds
                /\ \A n \in PackageNames :
                      create_sim_collection(t, n, <<"b1">>, 1, <<"concept">>,
                            <<"Train">>, PyNone, PyNone, PyNone, PyNone,
                            PyNone, PyNone, PyNone, PyNone, w) => holds]_vars

\* create_sim_collection has sent a POST for another workspace whose payload
\* names the default workspace.
C22_Witness ==
    \E t \in DOMAIN calls :
        /\ calls[t].http_method = "POST"
        /\ Len(calls[t].sent) >= 1
        /\ calls[t].url[3] = "other-ws"
        /\ Contains(calls[t].url, "/simulatorcollections")
        /\ calls[t].sent[1].call.payload.k = "dict"
        /\ "purpose" \in DOMAIN calls[t].sent[1].call.payload.v
        /\ TargetWorkspace(calls[t].sent[1].call.payload) =
                PyStr(DefaultWorkspace)

====
